---- MODULE Spec2Model ----
(***************************************************************************)
(* Verification model of the spatial acceleration and intersection engine  *)
(* of spatial3d: AABB, Facet, Ray, Intersection, KDTreeNode / KDTree and   *)
(* the Mesh glue.                                                          *)
(*                                                                         *)
(* Numbers.  Coordinates are integers on a grid whose pitch is a multiple  *)
(* of 8, so that the three halvings a KD-tree applies to one axis (depths  *)
(* 0/3/6, 1/4/7, 2/5) are exact, as they are for the same values held in   *)
(* binary floating point.  math.inf and the NaN produced by 0 * inf are    *)
(* the sentinels inf and NaN with the arithmetic of IEEE-754 spelled out   *)
(* in XSub / XMul / XGt / XLt.  A ray parameter t computed by a facet is   *)
(* an exact fraction <<numerator, denominator>> in lowest terms.           *)
(*                                                                         *)
(* Python values.  None is the empty tuple where the other values are      *)
(* non-empty tuples (Intersection.t, the mesh accelerator, the harness     *)
(* slots) and the sentinel None where the other values are facet lists.    *)
(* A facet is its index in FacetPool.  An exception leaving an operation   *)
(* is the name of the exception in the field / variable exc ("" if none).  *)
(***************************************************************************)
EXTENDS Integers, Sequences, FiniteSets, TLC

\* ------------------------------------------------------------------ bounds
\* Largest number of facets a mesh holds in the model.
MaxFacets == 2

\* branch is not called again on a root that has this many children (a
\* branch that raised can leave a root which every further call adds to).
MaxChildren == 3

\* ------------------------------------------------------- program constants
\* src/spatial3d/kdtree.py:10
DEPTH_BOUND == 8

\* Stand-in for math.inf: larger than every finite value the model computes.
inf == 1000000

\* Stand-in for the NaN that 0 * inf produces; only XMul makes it and only
\* XGt / XLt read it.
NaN == 3000000

\* Python's None where a facet list is expected (facet indices are >= 1).
None == <<0>>

\* ----------------------------------------------------------------- Vector3
Axes == 1..3

\* Vector3.__add__
VAdd(a, b) == [i \in Axes |-> a[i] + b[i]]

\* Vector3.__sub__
VSub(a, b) == [i \in Axes |-> a[i] - b[i]]

\* Vector3.__neg__
VNeg(a) == [i \in Axes |-> 0 - a[i]]

\* Vector3.__mul__ with a Vector3: the dot product
Dot(a, b) == a[1] * b[1] + a[2] * b[2] + a[3] * b[3]

\* vector3.cross
Cross(a, b) ==
  << a[2] * b[3] - a[3] * b[2], a[3] * b[1] - a[1] * b[3], a[1] * b[2] - a[2] * b[1] >>

\* Vector3.__truediv__ by 2 (reciprocal 0.5 times each component); exact on
\* the grid, and inf / 2 = inf.
VHalf(a) == [i \in Axes |-> IF a[i] = inf \/ a[i] = 0 - inf THEN a[i] ELSE a[i] \div 2]

\* math.isinf
IsInf(a) == a = inf \/ a = 0 - inf

\* Float addition and subtraction where a term may be infinite or NaN:
\* inf - inf is NaN.
FAdd(a, b) ==
  IF a = NaN \/ b = NaN THEN NaN
  ELSE IF IsInf(a) THEN (IF b = 0 - a THEN NaN ELSE a)
  ELSE IF IsInf(b) THEN b
  ELSE a + b

FSub(a, b) == IF b = NaN THEN NaN ELSE FAdd(a, 0 - b)

Min2(a, b) == IF b < a THEN b ELSE a

Max2(a, b) == IF b > a THEN b ELSE a

\* -------------------------------------------------------------------- AABB
\* AABB.__init__ with no objects: the empty sentinel.
EmptyAABB == [min |-> <<inf, inf, inf>>, max |-> <<0 - inf, 0 - inf, 0 - inf>>]

\* ExpandPoint with the slip of taking min for both corners.
ExpandPointMinForBoth(box, p) ==
  [min |-> [i \in Axes |-> Min2(p[i], box.min[i])],
   max |-> [i \in Axes |-> Min2(p[i], box.max[i])]]

\* ExpandPoint with the corners assigned instead of compared.
ExpandPointAssigns(box, p) == [min |-> p, max |-> p]

\* AABB.expand with a Vector3.
ExpandPoint(box, p) ==
  [min |-> [i \in Axes |-> Min2(p[i], box.min[i])],
   max |-> [i \in Axes |-> Max2(p[i], box.max[i])]]

\* AABB.expand with a list of Vector3: expand by each element in turn.
RECURSIVE ExpandPoints(_, _)
ExpandPoints(box, ps) ==
  IF ps = <<>> THEN box ELSE ExpandPoints(ExpandPoint(box, Head(ps)), Tail(ps))

\* AABB.__init__ with a list of points.
AABBOf(ps) == ExpandPoints(EmptyAABB, ps)

\* The values AABB.expand is handed, as [kind, val]: a Vector3, an AABB, a
\* list or tuple of such values, or a value of no supported type.
Vec(p) == [kind |-> "Vector3", val |-> p]

Box(b) == [kind |-> "AABB", val |-> b]

List(items) == [kind |-> "list", val |-> items]

Str == [kind |-> "str", val |-> 0]

\* AABB.expand(objects) on a box b: the box as the call leaves it and the
\* exception that left the call.  A list is taken element by element, an
\* AABB as the list of its two corners; the TypeError of an unsupported
\* element leaves the box as the elements before it made it.
RECURSIVE Expand(_, _)
RECURSIVE ExpandEach(_, _)
\* Expand without the deletion of the cached properties.
ExpandKeepsCaches(b, objects) ==
  IF objects.kind = "list" THEN ExpandEach(b, objects.val)
  ELSE IF objects.kind = "AABB"
       THEN ExpandEach(b, << Vec(objects.val.min), Vec(objects.val.max) >>)
  ELSE IF objects.kind = "Vector3"
       THEN [box |-> ExpandPoint(b, objects.val), exc |-> "", cleared |-> FALSE]
  ELSE [box |-> b, exc |-> "TypeError", cleared |-> FALSE]

\* `cleared` tells whether the call deleted the cached corners and center:
\* the Vector3 branch does, after it has moved the bounds (reading each
\* property first, which fills it from the new bounds, then deleting it).
Expand(b, objects) ==
  IF objects.kind = "list" THEN ExpandEach(b, objects.val)
  ELSE IF objects.kind = "AABB"
       THEN ExpandEach(b, << Vec(objects.val.min), Vec(objects.val.max) >>)
  ELSE IF objects.kind = "Vector3"
       THEN [box |-> ExpandPoint(b, objects.val), exc |-> "", cleared |-> TRUE]
  ELSE [box |-> b, exc |-> "TypeError", cleared |-> FALSE]

\* The loop of AABB.expand over a list.
ExpandEach(b, items) ==
  IF items = <<>> THEN [box |-> b, exc |-> "", cleared |-> FALSE]
  ELSE LET e == Expand(b, Head(items))
       IN IF e.exc # "" THEN e
          ELSE LET r == ExpandEach(e.box, Tail(items))
               IN [r EXCEPT !.cleared = e.cleared \/ @]

\* AABB.size: self.min itself when its first component is infinite.
Size(box) ==
  IF IsInf(box.min[1]) THEN box.min ELSE [i \in Axes |-> FSub(box.max[i], box.min[i])]

\* AABB.center
Center(box) ==
  IF IsInf(box.min[1]) THEN <<0, 0, 0>>
  ELSE LET half == VHalf(Size(box)) IN [i \in Axes |-> FAdd(box.min[i], half[i])]

\* A Vector3 object as a caller holds it: its components, and whether the
\* object is the box's own min or max vector ("min", "max") or one of its
\* own ("own").
Own(v) == [val |-> v, is |-> "own"]

\* AABB.corners: the list the property builds; the first element is
\* self.max and the fifth self.min, the others are new vectors.
Corners(box) ==
  LET size == Size(box)
      x == << size[1], 0, 0 >>
      y == << 0, size[2], 0 >>
      Minus(a, b) == [i \in Axes |-> FSub(a[i], b[i])]
      Plus(a, b) == [i \in Axes |-> FAdd(a[i], b[i])]
  IN << [val |-> box.max, is |-> "max"],
        Own(Minus(box.max, x)),
        Own(Minus(Minus(box.max, x), y)),
        Own(Minus(box.max, y)),
        [val |-> box.min, is |-> "min"],
        Own(Plus(box.min, x)),
        Own(Plus(Plus(box.min, x), y)),
        Own(Plus(box.min, y)) >>

\* The vectors vs as they read once the box's bounds are b's: expand writes
\* the components of self.min and self.max in place.
Seen(vs, b) ==
  [k \in DOMAIN vs |->
     IF vs[k].is = "min" THEN [vs[k] EXCEPT !.val = b.min]
     ELSE IF vs[k].is = "max" THEN [vs[k] EXCEPT !.val = b.max]
     ELSE vs[k]]

\* AABB.contains
Contains(box, p) == \A i \in Axes : box.min[i] <= p[i] /\ p[i] <= box.max[i]

\* AABBSplit with the right box started from the receiver's min as it is.
AABBSplitRightFromMin(box, axis, value) ==
  IF box.min[axis] >= value \/ box.max[axis] <= value
  THEN [exc |-> "ValueError", left |-> EmptyAABB, right |-> EmptyAABB]
  ELSE LET left_max == [box.max EXCEPT ![axis] = value]
       IN [exc |-> "",
           left |-> AABBOf(<<box.min, left_max>>),
           right |-> AABBOf(<<box.min, box.max>>)]

\* AABBSplit with the bounds test letting a value on a bound through.
AABBSplitAllowsBounds(box, axis, value) ==
  IF box.min[axis] > value \/ box.max[axis] < value
  THEN [exc |-> "ValueError", left |-> EmptyAABB, right |-> EmptyAABB]
  ELSE LET left_max == [box.max EXCEPT ![axis] = value]
           right_min == [box.min EXCEPT ![axis] = value]
       IN [exc |-> "",
           left |-> AABBOf(<<box.min, left_max>>),
           right |-> AABBOf(<<right_min, box.max>>)]

\* AABB.split: ValueError unless value is strictly inside the box on axis.
AABBSplit(box, axis, value) ==
  IF box.min[axis] >= value \/ box.max[axis] <= value
  THEN [exc |-> "ValueError", left |-> EmptyAABB, right |-> EmptyAABB]
  ELSE LET left_max == [box.max EXCEPT ![axis] = value]
           right_min == [box.min EXCEPT ![axis] = value]
       IN [exc |-> "",
           left |-> AABBOf(<<box.min, left_max>>),
           right |-> AABBOf(<<right_min, box.max>>)]

\* IEEE-754 subtraction of a finite b from a that may be infinite.
XSub(a, b) == IF a = inf \/ a = 0 - inf THEN a ELSE a - b

XSign(a) == IF a > 0 THEN 1 ELSE IF a < 0 THEN 0 - 1 ELSE 0

\* IEEE-754 product where either factor may be infinite: 0 * inf is NaN.
XMul(a, b) ==
  IF a = NaN \/ b = NaN THEN NaN
  ELSE IF a = inf \/ a = 0 - inf \/ b = inf \/ b = 0 - inf
       THEN IF a = 0 \/ b = 0 THEN NaN ELSE XSign(a) * XSign(b) * inf
       ELSE a * b

\* a > b in IEEE-754: false when either side is NaN.
XGt(a, b) == a # NaN /\ b # NaN /\ a > b

\* a < b in IEEE-754: false when either side is NaN.
XLt(a, b) == a # NaN /\ b # NaN /\ a < b

\* InvDirection with the ZeroDivisionError mapped to 0.
InvDirectionZero(d) == d

\* 1 / direction with ZeroDivisionError mapped to math.inf; the model's
\* rays have direction components in {-1, 0, 1}.
InvDirection(d) == IF d = 0 THEN inf ELSE d

\* One iteration of the slab loop of AABB.intersect on axis i: the interval
\* after narrowing, and whether the loop returns False here.
SlabStep(box, ray, iv, i) ==
  LET inv_direction == InvDirection(ray.direction[i])
      a == XMul(XSub(box.min[i], ray.origin[i]), inv_direction)
      b == XMul(XSub(box.max[i], ray.origin[i]), inv_direction)
      t_min == IF XGt(a, b) THEN b ELSE a
      t_max == IF XGt(a, b) THEN a ELSE b
      lo == IF XGt(t_min, iv[1]) THEN t_min ELSE iv[1]
      hi == IF XLt(t_max, iv[2]) THEN t_max ELSE iv[2]
  IN [iv |-> <<lo, hi>>, miss |-> XGt(lo, hi)]

\* AABB.intersect(ray, min_t, max_t)
AABBIntersect(box, ray, min_t, max_t) ==
  LET s1 == SlabStep(box, ray, <<min_t, max_t>>, 1)
      s2 == SlabStep(box, ray, s1.iv, 2)
      s3 == SlabStep(box, ray, s2.iv, 3)
  IN ~s1.miss /\ ~s2.miss /\ ~s3.miss

\* ------------------------------------------------------------ Facet, Edge
\* The triangles the model draws its facets from, as vertex lists; a facet
\* is its index here.  1, 2: opposite faces x = 0 and x = 16; 3: in the plane
\* x = 8; 4: in the plane z = 0; 5: slanted.
FacetPool ==
  << << <<0, 0, 0>>, <<0, 16, 0>>, <<0, 0, 16>> >>,
     << <<16, 0, 0>>, <<16, 0, 16>>, <<16, 16, 0>> >>,
     << <<8, 0, 0>>, <<8, 0, 16>>, <<8, 16, 0>> >>,
     << <<0, 0, 0>>, <<16, 0, 0>>, <<0, 16, 0>> >>,
     << <<0, 0, 0>>, <<8, 0, 0>>, <<0, 8, 8>> >> >>

FacetIds == 1..Len(FacetPool)

\* Facet.vertices
Vertices(f) == FacetPool[f]

\* Facet.aabb, a cached property: computed once per facet.
FacetBoxes == [f \in FacetIds |-> AABBOf(Vertices(f))]

FacetAABB(f) == FacetBoxes[f]

\* Edge.vector of Facet.edges[k]: edges k = 1, 2 join consecutive vertices,
\* the last edge closes the polygon back to the first vertex.
EdgeVector(f, k) ==
  IF k < Len(Vertices(f))
  THEN VSub(Vertices(f)[k + 1], Vertices(f)[k])
  ELSE VSub(Vertices(f)[1], Vertices(f)[Len(Vertices(f))])

\* ------------------------------------------------------------ Intersection
Abs(n) == IF n < 0 THEN 0 - n ELSE n

RECURSIVE GCD(_, _)
GCD(a, b) == IF b = 0 THEN a ELSE GCD(b, a % b)

\* The quotient n / d (d # 0) as a fraction in lowest terms, denominator > 0.
Frac(n, d) ==
  LET g == GCD(Abs(n), Abs(d))
      s == IF d < 0 THEN 0 - 1 ELSE 1
  IN << (s * n) \div g, Abs(d) \div g >>

FracLt(a, b) == a[1] * b[2] < b[1] * a[2]

\* Intersection with no test of t.
IntersectionUnchecked(t, obj) == [exc |-> "", t |-> t, obj |-> obj]

\* Intersection.__new__: ValueError when t is not None and t < 0.
Intersection(t, obj) ==
  IF t # <<>> /\ t[1] < 0
  THEN [exc |-> "ValueError", t |-> <<>>, obj |-> 0]
  ELSE [exc |-> "", t |-> t, obj |-> obj]

\* Intersection.Miss
Miss == Intersection(<<>>, 0)

\* Intersection.hit
Hit(x) == x.t # <<>>

\* CloserThan with the comparison of two hits letting equal t through.
CloserThanOrEqual(x, other) ==
  IF x.t = <<>> THEN FALSE ELSE other.t = <<>> \/ ~FracLt(other.t, x.t)

\* Intersection.closer_than
CloserThan(x, other) ==
  IF x.t = <<>> THEN FALSE ELSE other.t = <<>> \/ FracLt(x.t, other.t)

\* FacetIntersect with the culling test made without looking at
\* check_back_facing.
FacetIntersectCullsAlways(f, ray, check_back_facing) ==
  LET E1 == EdgeVector(f, 1)
      E2 == VNeg(EdgeVector(f, 3))
      P == Cross(ray.direction, E2)
      det == Dot(P, E1)
      T == VSub(ray.origin, Vertices(f)[1])
      Q == Cross(T, E1)
      un == Dot(P, T)
      vn == Dot(Q, ray.direction)
  IN IF det <= 0 THEN Miss
     ELSE IF ~(0 <= un /\ un <= det) \/ vn < 0 \/ un + vn > det THEN Miss
     ELSE Intersection(Frac(Dot(Q, E2), det), f)

\* Facet.intersect (Moller-Trumbore).  u, v and t are quotients by det; the
\* comparisons on them are made on the numerators, scaled by the sign of det.
FacetIntersect(f, ray, check_back_facing) ==
  LET E1 == EdgeVector(f, 1)
      E2 == VNeg(EdgeVector(f, 3))
      P == Cross(ray.direction, E2)
      det == Dot(P, E1)
      T == VSub(ray.origin, Vertices(f)[1])
      Q == Cross(T, E1)
      s == XSign(det)
      un == s * Dot(P, T)
      vn == s * Dot(Q, ray.direction)
  IN IF ~check_back_facing /\ det < 0 THEN Miss
     ELSE IF det = 0 THEN Miss
     ELSE IF ~(0 <= un /\ un <= Abs(det)) \/ vn < 0 \/ un + vn > Abs(det) THEN Miss
     ELSE Intersection(Frac(Dot(Q, E2), det), f)

\* --------------------------------------------------------------------- Ray
\* Vector3.normalize for the model's directions, whose non-zero components
\* have equal magnitude: the unit vector is the vector of signs divided by
\* sqrt(k), k the number of non-zero components.  The model keeps the vector
\* of signs and so measures t along such a ray in units of 1 / sqrt(k); k is
\* 1 wherever a t is compared with a length given from outside (a finite
\* min_t or max_t) or with the t of another ray.  The zero vector raises
\* ZeroDivisionError.
Normalize(d) == [i \in Axes |-> XSign(d[i])]

\* Ray.__init__
Ray(origin, direction) ==
  IF direction = <<0, 0, 0>>
  THEN [exc |-> "ValueError", origin |-> origin, direction |-> direction]
  ELSE [exc |-> "", origin |-> origin, direction |-> Normalize(direction)]

\* Ray.closest_intersection over a list of facets, from the item at the head
\* of `items` on, with `closest` the best found so far.  An exception raised
\* by an item's intersect leaves the loop.
RECURSIVE ClosestFacet(_, _, _)
ClosestFacet(items, ray, closest) ==
  IF items = <<>> THEN closest
  ELSE LET x == FacetIntersect(Head(items), ray, FALSE)
       IN IF x.exc # "" THEN x
          ELSE ClosestFacet(Tail(items), ray, IF CloserThan(x, closest) THEN x ELSE closest)

\* Ray.closest_intersection over a collection of anything: an item is a
\* facet, or 0 for an object with no callable intersect (a Vector3), which
\* the loop passes over.
RECURSIVE ClosestIntersection(_, _, _)
ClosestIntersection(collection, ray, closest) ==
  IF collection = <<>> THEN closest
  ELSE IF Head(collection) = 0 THEN ClosestIntersection(Tail(collection), ray, closest)
  ELSE LET x == FacetIntersect(Head(collection), ray, FALSE)
       IN IF x.exc # "" THEN x
          ELSE ClosestIntersection(Tail(collection), ray, IF CloserThan(x, closest) THEN x ELSE closest)

\* -------------------------------------------------------------- KDTreeNode
\* KDTreeNode.__init__.  Three fields are bookkeeping of the model, not of
\* the program: `box_shared` and `list_shared` are true while self.aabb and
\* self.facets are the very objects the mesh holds (so Mesh.append shows
\* through them), and `branched_from` keeps the facet list the node held
\* when branch gave it its first child.
KDTreeNode(aabb, facets, box_shared, list_shared) ==
  [aabb |-> aabb, facets |-> facets, children |-> <<>>,
   box_shared |-> box_shared, list_shared |-> list_shared, branched_from |-> <<>>]

\* KDTreeNode.is_leaf
IsLeaf(n) == Len(n.children) = 0

\* CanBranch with the depth test off by one.
CanBranchOneDeeper(n, depth) == Len(n.facets) > 0 /\ depth <= DEPTH_BOUND

\* KDTreeNode.can_branch (len(None) raises TypeError: see Branch)
CanBranch(n, depth) == Len(n.facets) > 0 /\ depth < DEPTH_BOUND

\* KDTreeNode.splitting_plane: <<axis, value>>, the axes being 1..3 here.
SplittingPlane(n, depth) ==
  LET plane_axis == (depth % 3) + 1
  IN << plane_axis, Center(n.aabb)[plane_axis] >>

\* SplitFacets with a facet that touches the plane put on that side too.
RECURSIVE SplitFacetsInclusive(_, _, _)
SplitFacetsInclusive(facets, plane_axis, plane_value) ==
  IF facets = <<>> THEN << <<>>, <<>> >>
  ELSE LET facet == Head(facets)
           rest == SplitFacetsInclusive(Tail(facets), plane_axis, plane_value)
           left == IF FacetAABB(facet).min[plane_axis] <= plane_value
                   THEN <<facet>> ELSE <<>>
           right == IF FacetAABB(facet).max[plane_axis] >= plane_value
                    THEN <<facet>> ELSE <<>>
       IN << left \o rest[1], right \o rest[2] >>

\* KDTreeNode.split_facets over the list `facets`, order preserved.
RECURSIVE SplitFacets(_, _, _)
SplitFacets(facets, plane_axis, plane_value) ==
  IF facets = <<>> THEN << <<>>, <<>> >>
  ELSE LET facet == Head(facets)
           rest == SplitFacets(Tail(facets), plane_axis, plane_value)
           left == IF FacetAABB(facet).min[plane_axis] < plane_value
                   THEN <<facet>> ELSE <<>>
           right == IF FacetAABB(facet).max[plane_axis] > plane_value
                    THEN <<facet>> ELSE <<>>
       IN << left \o rest[1], right \o rest[2] >>

\* KDTreeNode.branch: the node as the call leaves it, and the exception that
\* left the call, if any.  `interior` is what the last line assigns to
\* self.facets: [] in spatial3d/kdtree.py, None in spatial/kdtree.py.
RECURSIVE Branch(_, _, _)
\* Branch with the node's list emptied in place (self.facets.clear()) where
\* the code binds a new value to self.facets.
BranchClearsInPlace(n, depth, interior) ==
  IF n.facets = None THEN [node |-> n, exc |-> "TypeError"]
  ELSE IF ~CanBranch(n, depth) THEN [node |-> n, exc |-> ""]
  ELSE
    LET plane == SplittingPlane(n, depth)
        boxes == AABBSplit(n.aabb, plane[1], plane[2])
        lists == SplitFacets(n.facets, plane[1], plane[2])
        L == Branch(KDTreeNode(boxes.left, lists[1], FALSE, FALSE), depth + 1, interior)
        n1 == [n EXCEPT !.children = Append(@, L.node), !.branched_from = n.facets]
        R == Branch(KDTreeNode(boxes.right, lists[2], FALSE, FALSE), depth + 1, interior)
        n2 == [n1 EXCEPT !.children = Append(@, R.node)]
    IN IF boxes.exc # "" THEN [node |-> n, exc |-> boxes.exc]
       ELSE IF L.exc # "" THEN [node |-> n, exc |-> L.exc]
       ELSE IF R.exc # "" THEN [node |-> n1, exc |-> R.exc]
       ELSE [node |-> [n2 EXCEPT !.facets = <<>>], exc |-> ""]

Branch(n, depth, interior) ==
  IF n.facets = None THEN [node |-> n, exc |-> "TypeError"]
  ELSE IF ~CanBranch(n, depth) THEN [node |-> n, exc |-> ""]
  ELSE
    LET plane == SplittingPlane(n, depth)
        boxes == AABBSplit(n.aabb, plane[1], plane[2])
        lists == SplitFacets(n.facets, plane[1], plane[2])
        L == Branch(KDTreeNode(boxes.left, lists[1], FALSE, FALSE), depth + 1, interior)
        n1 == [n EXCEPT !.children = Append(@, L.node), !.branched_from = n.facets]
        R == Branch(KDTreeNode(boxes.right, lists[2], FALSE, FALSE), depth + 1, interior)
        n2 == [n1 EXCEPT !.children = Append(@, R.node)]
    IN IF boxes.exc # "" THEN [node |-> n, exc |-> boxes.exc]
       ELSE IF L.exc # "" THEN [node |-> n, exc |-> L.exc]
       ELSE IF R.exc # "" THEN [node |-> n1, exc |-> R.exc]
       ELSE [node |-> [n2 EXCEPT !.facets = interior, !.list_shared = FALSE],
             exc |-> ""]

\* KDTreeNode.intersect, with Ray.closest_intersection over the children.
RECURSIVE NodeIntersect(_, _)
RECURSIVE ClosestChild(_, _, _)
NodeIntersect(n, ray) ==
  IF ~AABBIntersect(n.aabb, ray, 0, inf) THEN Miss
  ELSE IF IsLeaf(n) THEN ClosestFacet(n.facets, ray, Miss)
  ELSE ClosestChild(n.children, ray, Miss)

\* Ray.closest_intersection over a list of KDTreeNode.
ClosestChild(items, ray, closest) ==
  IF items = <<>> THEN closest
  ELSE LET x == NodeIntersect(Head(items), ray)
       IN IF x.exc # "" THEN x
          ELSE ClosestChild(Tail(items), ray, IF CloserThan(x, closest) THEN x ELSE closest)

\* -------------------------------------------------------------------- Mesh
\* Mesh.__init__: the facet list and the box expanded by every facet's
\* vertices in turn.
RECURSIVE ExpandFacets(_, _)
ExpandFacets(box, facets) ==
  IF facets = <<>> THEN box
  ELSE ExpandFacets(ExpandPoints(box, Vertices(Head(facets))), Tail(facets))

Mesh(facets) == [facets |-> facets, aabb |-> ExpandFacets(EmptyAABB, facets)]

\* ------------------------------------------------------------------- state
VARIABLES
  mesh,         \* the Mesh: [facets, aabb]
  accelerator,  \* Mesh._accelerator: <<>> (None) or <<node>>
  node,         \* a KDTreeNode made from (mesh.aabb, mesh.facets): <<>> or <<node>>
  tree,         \* a KDTree made from the mesh: <<>> or <<[root |-> node]>>
  op,           \* the last operation and its arguments: [name, ...]
  exc,          \* the exception that left the last operation, "" if none
  ret,          \* what the last operation returned, <<>> if nothing
  brute,        \* the brute-force scan of the same ray over mesh.facets, else <<>>
  box,          \* an AABB of the caller's own: [min, max]
  cache,        \* the cached properties of box: [center, corners], <<>> if not cached
  held,         \* the vectors the caller keeps references to: [val, is] each
  updater,      \* the thread in KDTree.update: [pc, ...]
  query         \* the thread in KDTree.intersect: [pc, ...]

vars == <<mesh, accelerator, node, tree, op, exc, ret, brute, box, cache, held, updater, query>>

\* No cached property is filled.
NoCache == [center |-> <<>>, corners |-> <<>>]

\* A thread that has not been started.
Idle == [pc |-> "idle"]

\* Facet lists of length at most n.
RECURSIVE FacetLists(_)
FacetLists(n) ==
  IF n = 0 THEN { <<>> }
  ELSE LET shorter == FacetLists(n - 1)
       IN shorter \cup { Append(l, f) : l \in { s \in shorter : Len(s) = n - 1 }, f \in FacetIds }

\* The depths branch is called with: the default 0, a depth two levels above
\* the bound, and the bound itself.
BranchDepths == {0, DEPTH_BOUND - 2, DEPTH_BOUND}

\* The rays of the model: origins inside and outside the pool's boxes,
\* directions along the x and z half-axes (not all of unit length).
RayOrigins == { <<4, 4, 4>>, <<12, 4, 4>>, <<4, 4, 0 - 8>> }

RayDirections == { <<1, 0, 0>>, <<0 - 2, 0, 0>>, <<0, 0, 3>>, <<0, 0, 0 - 1>> }

\* The rays single facets are probed with.
FacetRays == { Ray(o, d) : o \in RayOrigins, d \in RayDirections }

\* The rays trees and meshes are queried with.
Rays ==
  { Ray(o, d) : o \in { <<4, 4, 4>>, <<4, 4, 0 - 8>> },
                d \in { <<1, 0, 0>>, <<0 - 2, 0, 0>>, <<0, 0, 0 - 1>> } }

\* Mesh(name, facets) for a facet list within the bound; nothing else exists.
Init ==
  /\ mesh \in { Mesh(l) : l \in FacetLists(MaxFacets) }
  /\ accelerator = <<>>
  /\ node = <<>>
  /\ tree = <<>>
  /\ op = [name |-> "Mesh"]
  /\ exc = ""
  /\ ret = <<>>
  /\ brute = <<>>
  /\ box = EmptyAABB
  /\ cache = NoCache
  /\ held = <<>>
  /\ updater = Idle
  /\ query = Idle

\* A corner beyond the pool's boxes, for a box that is not tight.
LooseCorner == <<0 - 16, 0, 0>>

\* node = KDTreeNode(mesh.aabb, mesh.facets), or, as the tests build it,
\* node = KDTreeNode(aabb, mesh.facets) with a box of the caller's own that
\* covers the facets without being their tight bounding box.
NewNode(loose) ==
  /\ node' = IF loose
             THEN << KDTreeNode(ExpandPoint(mesh.aabb, LooseCorner), mesh.facets, FALSE, TRUE) >>
             ELSE << KDTreeNode(mesh.aabb, mesh.facets, TRUE, TRUE) >>
  /\ op' = [name |-> "KDTreeNode", loose |-> loose]
  /\ exc' = ""
  /\ ret' = <<>>
  /\ brute' = <<>>
  /\ UNCHANGED <<cache, held, updater, query, box, mesh, accelerator, tree>>

\* The mesh as it reads after a node made from (mesh.aabb, mesh.facets) was
\* written to: while the node's aabb and facets are the mesh's own objects,
\* what was done to them in place shows in the mesh.
SeenByMesh(m, n) ==
  [facets |-> IF n.list_shared THEN n.facets ELSE m.facets,
   aabb |-> IF n.box_shared THEN n.aabb ELSE m.aabb]

\* node.branch(depth)
BranchNode(depth) ==
  /\ node # <<>>
  /\ Len(node[1].children) < MaxChildren
  /\ LET b == Branch(node[1], depth, <<>>)
     IN /\ node' = << b.node >>
        /\ exc' = b.exc
        /\ mesh' = SeenByMesh(mesh, b.node)
  /\ op' = [name |-> "branch", depth |-> depth, before |-> node[1]]
  /\ ret' = <<>>
  /\ brute' = <<>>
  /\ UNCHANGED <<cache, held, updater, query, box, accelerator, tree>>

\* node.intersect(ray), and beside it ray.closest_intersection(mesh.facets)
\* as the reference the query is compared with.
IntersectNode(ray) ==
  /\ node # <<>>
  /\ LET x == NodeIntersect(node[1], ray)
         y == ClosestFacet(mesh.facets, ray, Miss)
     IN /\ ret' = << x >>
        /\ brute' = << y >>
        /\ exc' = x.exc
  /\ op' = [name |-> "intersect", ray |-> ray]
  /\ UNCHANGED <<cache, held, updater, query, box, mesh, accelerator, node, tree>>

NextNode ==
  \/ \E loose \in BOOLEAN : NewNode(loose)
  \/ \E depth \in BranchDepths : BranchNode(depth)
  \/ \E ray \in Rays : IntersectNode(ray)

SpecNode == Init /\ [][NextNode]_vars

\* facet.intersect(ray, check_back_facing) on a facet of the pool
IntersectFacet(f, ray, check_back_facing) ==
  /\ LET x == FacetIntersect(f, ray, check_back_facing)
     IN /\ ret' = << x >>
        /\ exc' = x.exc
  /\ op' = [name |-> "Facet.intersect", facet |-> f, ray |-> ray,
            check_back_facing |-> check_back_facing]
  /\ brute' = <<>>
  /\ UNCHANGED <<cache, held, updater, query, box, mesh, accelerator, node, tree>>

NextFacet ==
  \E f \in FacetIds, ray \in FacetRays, check_back_facing \in BOOLEAN :
    IntersectFacet(f, ray, check_back_facing)

SpecFacet == Init /\ [][NextFacet]_vars

\* What a holder of (mesh.aabb, mesh.facets) sees after the mesh changed in
\* place: the root's aabb is the mesh's AABB object, and its facet list is
\* the mesh's list object until branch rebinds it.
Aliased(slot, m) ==
  IF slot = <<>> THEN slot
  ELSE << [slot[1] EXCEPT !.aabb = IF slot[1].box_shared THEN m.aabb ELSE @,
                          !.facets = IF slot[1].list_shared THEN m.facets ELSE @] >>

\* mesh.append(facet): the box and the list are updated first; with an
\* accelerator installed the call then looks up accelerator.update, which a
\* KDTreeNode does not have.
MeshAppend(f) ==
  /\ Len(mesh.facets) < MaxFacets
  /\ LET m == [facets |-> Append(mesh.facets, f),
               aabb |-> ExpandPoints(mesh.aabb, Vertices(f))]
     IN /\ mesh' = m
        /\ accelerator' = Aliased(accelerator, m)
        /\ node' = Aliased(node, m)
        /\ tree' = IF tree = <<>> THEN tree ELSE << [root |-> Aliased(<<tree[1].root>>, m)[1]] >>
  /\ exc' = IF accelerator # <<>> THEN "AttributeError" ELSE ""
  /\ op' = [name |-> "append", facet |-> f, before |-> mesh, accelerator |-> accelerator]
  /\ ret' = <<>>
  /\ brute' = <<>>
  /\ UNCHANGED <<cache, held, updater, query, box>>

\* The classes a caller can assign to mesh.accelerator.
AcceleratorTypes == {"KDTreeNode", "KDTree"}

\* mesh.accelerator = type: the setter calls type(self.aabb, self.facets).
\* KDTreeNode takes the two arguments and is stored as constructed; KDTree's
\* constructor takes one mesh argument, so the call raises TypeError.
SetAccelerator(type) ==
  /\ IF type = "KDTreeNode"
     THEN /\ accelerator' = << KDTreeNode(mesh.aabb, mesh.facets, TRUE, TRUE) >>
          /\ exc' = ""
     ELSE /\ accelerator' = accelerator
          /\ exc' = "TypeError"
  /\ op' = [name |-> "accelerator", type |-> type]
  /\ ret' = <<>>
  /\ brute' = <<>>
  /\ UNCHANGED <<cache, held, updater, query, box, mesh, node, tree>>

\* mesh.intersect(ray): the accelerator answers if there is one, else the
\* brute-force scan of the facets.
IntersectMesh(ray) ==
  /\ LET x == IF accelerator # <<>> THEN NodeIntersect(accelerator[1], ray)
              ELSE ClosestFacet(mesh.facets, ray, Miss)
     IN /\ ret' = << x >>
        /\ exc' = x.exc
  /\ brute' = << ClosestFacet(mesh.facets, ray, Miss) >>
  /\ op' = [name |-> "Mesh.intersect", ray |-> ray]
  /\ UNCHANGED <<cache, held, updater, query, box, mesh, accelerator, node, tree>>

NextMesh ==
  \/ \E f \in FacetIds : MeshAppend(f)
  \/ \E type \in AcceleratorTypes : SetAccelerator(type)
  \/ \E ray \in Rays : IntersectMesh(ray)

SpecMesh == Init /\ [][NextMesh]_vars

\* ------------------------------------------------------------------ KDTree
\* KDTree.__init__: the root is bound, then construct() branches it; an
\* exception from branch leaves the new root in place, as far as it got.
KDTreeInit(m) ==
  LET b == Branch(KDTreeNode(m.aabb, m.facets, TRUE, TRUE), 0, None)
  IN [tree |-> [root |-> b.node], exc |-> b.exc]

\* tree = KDTree(mesh), the first tree made
NewTree ==
  /\ tree = <<>>
  /\ LET k == KDTreeInit(mesh)
     IN /\ tree' = IF k.exc = "" THEN << k.tree >> ELSE <<>>
        /\ exc' = k.exc
  /\ op' = [name |-> "KDTree"]
  /\ ret' = <<>>
  /\ brute' = <<>>
  /\ UNCHANGED <<cache, held, updater, query, box, mesh, accelerator, node>>

\* tree.update(mesh): self.__init__(mesh) on the existing object.
UpdateTree ==
  /\ tree # <<>>
  /\ LET k == KDTreeInit(mesh)
     IN /\ tree' = << k.tree >>
        /\ exc' = k.exc
  /\ op' = [name |-> "update", before |-> tree[1]]
  /\ ret' = <<>>
  /\ brute' = <<>>
  /\ UNCHANGED <<cache, held, updater, query, box, mesh, accelerator, node>>

\* IntersectTree with the query dropping the children of the root whose box
\* the ray misses.
IntersectTreePrunes(ray) ==
  /\ tree # <<>>
  /\ LET x == NodeIntersect(tree[1].root, ray)
         kept == SelectSeq(tree[1].root.children, LAMBDA c : AABBIntersect(c.aabb, ray, 0, inf))
     IN /\ ret' = << x >>
        /\ exc' = x.exc
        /\ tree' = << [root |-> [tree[1].root EXCEPT !.children = kept]] >>
  /\ brute' = << ClosestFacet(mesh.facets, ray, Miss) >>
  /\ op' = [name |-> "KDTree.intersect", ray |-> ray]
  /\ UNCHANGED <<cache, held, updater, query, box, mesh, accelerator, node>>

\* tree.intersect(ray)
IntersectTree(ray) ==
  /\ tree # <<>>
  /\ LET x == NodeIntersect(tree[1].root, ray)
     IN /\ ret' = << x >>
        /\ exc' = x.exc
  /\ brute' = << ClosestFacet(mesh.facets, ray, Miss) >>
  /\ op' = [name |-> "KDTree.intersect", ray |-> ray]
  /\ UNCHANGED <<cache, held, updater, query, box, mesh, accelerator, node, tree>>

NextTree ==
  \/ NewTree
  \/ UpdateTree
  \/ \E f \in FacetIds : MeshAppend(f)
  \/ \E ray \in Rays : IntersectTree(ray)

SpecTree == Init /\ [][NextTree]_vars

\* ----------------------------------------------------- split_facets alone
\* The plane values split_facets is called with, on each axis: on the
\* pool's faces, between them and beyond them.
PlaneValues == {0, 4, 8, 16, 24}

\* node.split_facets(plane_axis, plane_value) on a node as constructed
SplitNodeFacets(plane_axis, plane_value) ==
  /\ node # <<>>
  /\ LET lists == SplitFacets(node[1].facets, plane_axis, plane_value)
     IN ret' = << [left |-> lists[1], right |-> lists[2]] >>
  /\ exc' = ""
  /\ op' = [name |-> "split_facets", plane_axis |-> plane_axis, plane_value |-> plane_value]
  /\ UNCHANGED <<mesh, accelerator, node, tree, brute, box, cache, held, updater, query>>

NextSplit ==
  \/ \E loose \in BOOLEAN : NewNode(loose)
  \/ \E plane_axis \in Axes, plane_value \in PlaneValues :
       SplitNodeFacets(plane_axis, plane_value)

SpecSplit == Init /\ [][NextSplit]_vars

\* ---------------------------------------- a query beside KDTree.update
\* The writes one branch call makes to the node it is called on, in order:
\* children.append for the left child, children.append for the right child,
\* then the assignment to facets.  `states` is the node after each write and
\* exc the exception that ends the call.  A child is branched to the full
\* before it is appended, so the nested calls write to nodes nothing else
\* can reach yet.
BranchWritesAtOnce(n, depth, interior) ==
  LET b == Branch(n, depth, interior)
  IN [states |-> IF b.node = n THEN <<>> ELSE << b.node >>, exc |-> b.exc]

BranchWrites(n, depth, interior) ==
  IF n.facets = None THEN [states |-> <<>>, exc |-> "TypeError"]
  ELSE IF ~CanBranch(n, depth) THEN [states |-> <<>>, exc |-> ""]
  ELSE
    LET plane == SplittingPlane(n, depth)
        boxes == AABBSplit(n.aabb, plane[1], plane[2])
        lists == SplitFacets(n.facets, plane[1], plane[2])
        L == Branch(KDTreeNode(boxes.left, lists[1], FALSE, FALSE), depth + 1, interior)
        n1 == [n EXCEPT !.children = Append(@, L.node), !.branched_from = n.facets]
        R == Branch(KDTreeNode(boxes.right, lists[2], FALSE, FALSE), depth + 1, interior)
        n2 == [n1 EXCEPT !.children = Append(@, R.node)]
        n3 == [n2 EXCEPT !.facets = interior, !.list_shared = FALSE]
    IN IF boxes.exc # "" THEN [states |-> <<>>, exc |-> boxes.exc]
       ELSE IF L.exc # "" THEN [states |-> <<>>, exc |-> L.exc]
       ELSE IF R.exc # "" THEN [states |-> << n1 >>, exc |-> R.exc]
       ELSE [states |-> << n1, n2, n3 >>, exc |-> ""]

\* The root KDTree.__init__ binds before it branches it.
FreshRoot == KDTreeNode(mesh.aabb, mesh.facets, TRUE, TRUE)

\* A step of the updater while the query is under way: the query no longer
\* runs alone.
Overlapped ==
  IF query.pc \in {"idle", "done"} THEN query ELSE [query EXCEPT !.alone = FALSE]

\* tree.update(mesh) is called.  `plan` is what the branch call of this
\* update will write to the root: the mesh it reads does not change while
\* the update runs.  The call touches nothing shared, so it is taken before
\* the query starts; every order of the steps that follow is still there.
UpdateCall ==
  /\ tree # <<>>
  /\ updater.pc = "idle"
  /\ query.pc = "idle"
  /\ updater' = [pc |-> "called", plan |-> BranchWrites(FreshRoot, 0, None)]
  /\ UNCHANGED <<mesh, accelerator, node, tree, op, exc, ret, brute, box, cache, held, query>>

\* self.__init__(mesh): self.root = KDTreeNode(mesh.aabb, mesh.facets).  The
\* tree object stays, its root is a new node; the nodes of the tree before
\* are no longer written to.
UpdateRebind ==
  /\ updater.pc = "called"
  /\ tree' = << [root |-> FreshRoot] >>
  /\ updater' = [pc |-> "branch", before |-> tree[1], written |-> 0, exc |-> "",
                 plan |-> updater.plan]
  /\ query' = Overlapped
  /\ UNCHANGED <<mesh, accelerator, node, op, exc, ret, brute, box, cache, held>>

\* tree.update(mesh), the next write of self.root.branch() to the root
UpdateWrite ==
  /\ updater.pc = "branch"
  /\ updater.written < Len(updater.plan.states)
  /\ tree' = << [root |-> updater.plan.states[updater.written + 1]] >>
  /\ updater' = [updater EXCEPT !.written = @ + 1]
  /\ query' = Overlapped
  /\ UNCHANGED <<mesh, accelerator, node, op, exc, ret, brute, box, cache, held>>

\* tree.update(mesh) returns, or the exception of branch leaves it
UpdateReturn ==
  /\ updater.pc = "branch"
  /\ updater.written = Len(updater.plan.states)
  /\ updater' = [updater EXCEPT !.pc = "done", !.exc = updater.plan.exc]
  /\ query' = Overlapped
  /\ UNCHANGED <<mesh, accelerator, node, tree, op, exc, ret, brute, box, cache, held>>

\* The node the query holds: the root it read from the tree.  The root of
\* the tree before the update keeps the state the update found it in.
QueryNode ==
  IF query.ref = "old" /\ updater.pc \in {"branch", "done"} THEN updater.before.root
  ELSE tree[1].root

\* The query returns x (x.exc tells the exception, if one leaves it).
QueryDone(x, seen) ==
  [pc |-> "done", ray |-> query.ray, ref |-> query.ref, alone |-> query.alone,
   seen |-> seen, result |-> x]

\* tree.intersect(ray), first step: self.root is read.
QueryRoot(ray) ==
  /\ tree # <<>>
  /\ query.pc = "idle"
  /\ query' = [pc |-> "root", ray |-> ray,
               ref |-> IF updater.pc \in {"idle", "called"} THEN "old" ELSE "new",
               alone |-> updater.pc \in {"idle", "called", "done"}]
  /\ UNCHANGED <<mesh, accelerator, node, tree, op, exc, ret, brute, box, cache, held, updater>>

\* KDTreeNode.intersect on the root: the box test, then self.is_leaf()
QueryIsLeaf ==
  /\ query.pc = "root"
  /\ query' = IF ~AABBIntersect(QueryNode.aabb, query.ray, 0, inf) THEN QueryDone(Miss, 0)
              ELSE IF IsLeaf(QueryNode) THEN [query EXCEPT !.pc = "facets"]
              ELSE [pc |-> "children", ray |-> query.ray, ref |-> query.ref,
                    alone |-> query.alone, i |-> 0, closest |-> Miss]
  /\ UNCHANGED <<mesh, accelerator, node, tree, op, exc, ret, brute, box, cache, held, updater>>

\* ray.closest_intersection(self.facets): self.facets is read now; iterating
\* None raises TypeError.
QueryFacets ==
  /\ query.pc = "facets"
  /\ query' = IF QueryNode.facets = None
              THEN QueryDone([Miss EXCEPT !.exc = "TypeError"], 0)
              ELSE QueryDone(ClosestFacet(QueryNode.facets, query.ray, Miss), 0)
  /\ UNCHANGED <<mesh, accelerator, node, tree, op, exc, ret, brute, box, cache, held, updater>>

\* ray.closest_intersection(self.children), one turn of the loop: the list
\* iterator compares its index with the length the list has now.
QueryChild ==
  /\ query.pc = "children"
  /\ query' = IF query.i >= Len(QueryNode.children) THEN QueryDone(query.closest, query.i)
              ELSE LET x == NodeIntersect(QueryNode.children[query.i + 1], query.ray)
                   IN IF x.exc # "" THEN QueryDone(x, query.i + 1)
                      ELSE [query EXCEPT !.i = @ + 1,
                                         !.closest = IF CloserThan(x, @) THEN x ELSE @]
  /\ UNCHANGED <<mesh, accelerator, node, tree, op, exc, ret, brute, box, cache, held, updater>>

\* The rays of the query beside an update: those from inside the pool's
\* boxes, and one from outside pointing away.
QueryRays ==
  { ray \in Rays : ray.origin = <<4, 4, 4>> } \cup { Ray(<<4, 4, 0 - 8>>, <<0, 0, 0 - 1>>) }

\* One update and one query on a tree built from the mesh, their steps in
\* any order; the mesh is appended to, if at all, once after the tree was
\* built and before either starts.
NextRebuild ==
  \/ NewTree
  \/ \E f \in FacetIds :
       tree # <<>> /\ op.name = "KDTree" /\ updater.pc = "idle" /\ query.pc = "idle" /\ MeshAppend(f)
  \/ UpdateCall
  \/ UpdateRebind
  \/ UpdateWrite
  \/ UpdateReturn
  \/ \E ray \in QueryRays : QueryRoot(ray)
  \/ QueryIsLeaf
  \/ QueryFacets
  \/ QueryChild

SpecRebuild == Init /\ [][NextRebuild]_vars

\* ------------------------------------------------------------ AABB harness
\* What the box is expanded by: points, boxes (the empty one among them),
\* lists and nested lists of them, and inputs with an unsupported element.
ExpandInputs ==
  LET lower == AABBOf(<< <<0, 0, 0>>, <<8, 8, 8>> >>)
      upper == AABBOf(<< <<8, 8, 8>>, <<16, 16, 16>> >>)
  IN { Vec(<<0, 0, 0>>), Vec(<<16, 16, 16>>), Vec(<<8, 8, 8>>), Vec(<<16, 16, 0>>),
       Box(EmptyAABB), Box(lower), Box(upper),
       List(<<>>),
       List(<< Vec(<<0, 0, 0>>), Vec(<<16, 16, 0>>) >>),
       List(<< List(<< Vec(<<8, 8, 8>>), Box(lower) >>), Vec(<<0, 16, 8>>) >>),
       List(<< Vec(<<16, 16, 16>>), Str, Vec(<<0, 0, 0>>) >>),
       Str }

\* The values AABB.split is called with, on each axis.
SplitValues == {0 - 8, 0, 4, 8, 16, 24}

\* Origins inside the boxes, on their faces and corners, and outside them.
BoxRayOrigins ==
  { <<4, 4, 4>>, <<0 - 8, 4, 4>>, <<24, 4, 4>>, <<4, 4, 0 - 8>>, <<4, 4, 24>>,
    <<0, 4, 4>>, <<16, 16, 16>>, <<0 - 8, 0 - 8, 4>>, <<4, 4, 0>> }

\* Directions along the axes (unit vectors).
AxisDirections ==
  { <<1, 0, 0>>, <<0 - 1, 0, 0>>, <<0, 1, 0>>, <<0, 0 - 1, 0>>, <<0, 0, 1>>, <<0, 0, 0 - 1>> }

\* Directions with two or three non-zero components of equal magnitude.
DiagonalDirections ==
  { <<1, 1, 0>>, <<0 - 1, 0, 1>>, <<1, 0, 0 - 1>>, <<0, 0 - 1, 0 - 1>>,
    <<1, 1, 1>>, <<0 - 1, 0 - 1, 0 - 1>> }

\* The (min_t, max_t) pairs AABB.intersect is called with; the first is the
\* default.
TBounds == { <<0, inf>>, <<0, 8>>, <<4, 12>>, <<12, 4>> }

\* The queries on a box: rays along the axes with every pair of bounds, and
\* diagonal rays with the default bounds, which the length of the direction
\* does not move.
BoxQueries ==
  { <<Ray(o, d), b>> : o \in BoxRayOrigins, d \in AxisDirections, b \in TBounds }
  \cup { <<Ray(o, d), <<0, inf>> >> : o \in BoxRayOrigins, d \in DiagonalDirections }

\* box = AABB(); the mesh plays no part.
InitAABB ==
  /\ mesh = Mesh(<<>>)
  /\ accelerator = <<>>
  /\ node = <<>>
  /\ tree = <<>>
  /\ op = [name |-> "AABB"]
  /\ exc = ""
  /\ ret = <<>>
  /\ brute = <<>>
  /\ box = EmptyAABB
  /\ cache = NoCache
  /\ held = <<>>
  /\ updater = Idle
  /\ query = Idle

\* box.expand(objects)
ExpandBox(objects) ==
  /\ LET e == Expand(box, objects)
     IN /\ box' = e.box
        /\ exc' = e.exc
        /\ cache' = IF e.cleared THEN NoCache
                    ELSE [cache EXCEPT !.corners = IF @ = <<>> THEN @ ELSE << Seen(@[1], e.box) >>]
        /\ held' = Seen(held, e.box)
  /\ op' = [name |-> "expand", objects |-> objects, before |-> box]
  /\ ret' = <<>>
  /\ UNCHANGED <<updater, query, mesh, accelerator, node, tree, brute>>

\* box.split(axis, value): the two boxes returned, or the exception.
SplitBox(axis, value) ==
  /\ LET r == AABBSplit(box, axis, value)
     IN /\ ret' = IF r.exc = "" THEN << [left |-> r.left, right |-> r.right] >> ELSE <<>>
        /\ exc' = r.exc
  /\ op' = [name |-> "split", axis |-> axis, value |-> value, before |-> box]
  /\ UNCHANGED <<cache, held, updater, query, box, mesh, accelerator, node, tree, brute>>

\* box.intersect(ray, min_t, max_t)
IntersectBox(ray, min_t, max_t) ==
  /\ ret' = << AABBIntersect(box, ray, min_t, max_t) >>
  /\ exc' = ""
  /\ op' = [name |-> "AABB.intersect", ray |-> ray, min_t |-> min_t, max_t |-> max_t]
  /\ UNCHANGED <<cache, held, updater, query, box, mesh, accelerator, node, tree, brute>>

NextAABB ==
  \/ \E objects \in ExpandInputs : ExpandBox(objects)
  \/ \E axis \in Axes, value \in SplitValues : SplitBox(axis, value)
  \/ \E q \in BoxQueries : IntersectBox(q[1], q[2][1], q[2][2])

SpecAABB == InitAABB /\ [][NextAABB]_vars

\* ------------------------------------------------- the views of an AABB
\* box.center: a cached property, computed on the first read after the
\* cache was deleted.
ReadCenter ==
  /\ LET v == IF cache.center # <<>> THEN cache.center[1] ELSE Center(box)
     IN /\ ret' = << v >>
        /\ cache' = [cache EXCEPT !.center = << v >>]
  /\ exc' = ""
  /\ op' = [name |-> "center"]
  /\ UNCHANGED <<held, updater, query, mesh, accelerator, node, tree, brute, box>>

\* box.corners: a cached property; the caller keeps the vectors returned.
ReadCorners ==
  /\ LET l == IF cache.corners # <<>> THEN cache.corners[1] ELSE Corners(box)
     IN /\ ret' = << [k \in DOMAIN l |-> l[k].val] >>
        /\ cache' = [cache EXCEPT !.corners = << l >>]
        /\ held' = l
  /\ exc' = ""
  /\ op' = [name |-> "corners"]
  /\ UNCHANGED <<updater, query, mesh, accelerator, node, tree, brute, box>>

\* box.size: computed on every read; the caller keeps the vector returned.
ReadSize ==
  /\ ret' = << Size(box) >>
  /\ held' = << [val |-> Size(box), is |-> IF IsInf(box.min[1]) THEN "min" ELSE "own"] >>
  /\ exc' = ""
  /\ op' = [name |-> "size"]
  /\ UNCHANGED <<cache, updater, query, mesh, accelerator, node, tree, brute, box>>

NextViews ==
  \/ \E objects \in ExpandInputs : ExpandBox(objects)
  \/ ReadCenter
  \/ ReadCorners
  \/ ReadSize

SpecViews == InitAABB /\ [][NextViews]_vars

\* --------------------------------------------- Intersection and Ray harness
\* The t an Intersection is constructed with: None, zero, positive and
\* negative values.
TValues == { <<>>, <<0, 1>>, <<1, 2>>, <<1, 1>>, <<4, 1>>, <<0 - 1, 2>>, <<0 - 8, 1>> }

\* The obj an Intersection is constructed with: None (0) or a facet.
ObjValues == {0, 1, 2}

\* The Intersection values that exist: those the constructor returns.
IntersectionValues ==
  { x \in { Intersection(t, obj) : t \in TValues, obj \in ObjValues } : x.exc = "" }

\* Collections of at most n items, each a facet or an object without
\* intersect.
RECURSIVE Collections(_)
Collections(n) ==
  IF n = 0 THEN { <<>> }
  ELSE LET shorter == Collections(n - 1)
       IN shorter \cup { Append(l, item) : l \in { c \in shorter : Len(c) = n - 1 },
                                           item \in {0} \cup FacetIds }

\* The longest collection scanned.
MaxItems == 3

\* Nothing constructed yet.
InitIntersection ==
  /\ mesh = Mesh(<<>>)
  /\ accelerator = <<>>
  /\ node = <<>>
  /\ tree = <<>>
  /\ op = [name |-> "none"]
  /\ exc = ""
  /\ ret = <<>>
  /\ brute = <<>>
  /\ box = EmptyAABB
  /\ cache = NoCache
  /\ held = <<>>
  /\ updater = Idle
  /\ query = Idle

\* x = Intersection(t, obj).  The calls of this harness are made one per
\* run, from the initial state: none of them reads what another left.
NewIntersection(t, obj) ==
  /\ op.name = "none"
  /\ LET x == Intersection(t, obj)
     IN /\ ret' = IF x.exc = "" THEN << x >> ELSE <<>>
        /\ exc' = x.exc
  /\ op' = [name |-> "Intersection", t |-> t, obj |-> obj]
  /\ UNCHANGED <<cache, held, updater, query, box, mesh, accelerator, node, tree, brute>>

\* x.t = value or x.obj = value on the Intersection made last: the class is
\* a namedtuple with empty __slots__, whose fields are read-only properties
\* and which has no instance dictionary, so the assignment raises.
SetAttribute(field, value) ==
  /\ ret # <<>>
  /\ op.name \in {"Intersection", "setattr"}
  /\ exc' = "AttributeError"
  /\ op' = [name |-> "setattr", field |-> field, value |-> value, before |-> ret]
  /\ UNCHANGED <<cache, held, updater, query, box, mesh, accelerator, node, tree, brute, ret>>

\* closer_than between three intersections, each way the order needs.
CompareThree(x, y, z) ==
  /\ op.name = "none"
  /\ ret' = << [xx |-> CloserThan(x, x), xy |-> CloserThan(x, y), yx |-> CloserThan(y, x),
                yz |-> CloserThan(y, z), xz |-> CloserThan(x, z)] >>
  /\ exc' = ""
  /\ op' = [name |-> "closer_than", x |-> x, y |-> y, z |-> z]
  /\ UNCHANGED <<cache, held, updater, query, box, mesh, accelerator, node, tree, brute>>

\* ray.closest_intersection(collection)
ScanCollection(collection, ray) ==
  /\ op.name = "none"
  /\ LET x == ClosestIntersection(collection, ray, Miss)
     IN /\ ret' = IF x.exc = "" THEN << x >> ELSE <<>>
        /\ exc' = x.exc
  /\ op' = [name |-> "closest_intersection", collection |-> collection, ray |-> ray]
  /\ UNCHANGED <<cache, held, updater, query, box, mesh, accelerator, node, tree, brute>>

NextIntersection ==
  \/ \E t \in TValues, obj \in ObjValues : NewIntersection(t, obj)
  \/ \E field \in {"t", "obj"}, value \in TValues : SetAttribute(field, value)
  \/ \E x \in IntersectionValues, y \in IntersectionValues, z \in IntersectionValues :
       CompareThree(x, y, z)
  \/ \E collection \in Collections(MaxItems), ray \in FacetRays :
       ScanCollection(collection, ray)

SpecIntersection == InitIntersection /\ [][NextIntersection]_vars

\* ------------------------------------------------------- Ray construction
\* The direction vectors a caller constructs a Ray with: along an axis, of
\* length 1, 2 or 3 (normalize is exact on these), and the zero vector.
ArgumentDirections ==
  { [i \in Axes |-> IF i = a THEN m ELSE 0] : a \in Axes, m \in {0 - 3, 0 - 2, 0 - 1, 0, 1, 2, 3} }

\* The caller holds a vector d; nothing else exists.
InitRay ==
  /\ mesh = Mesh(<<>>)
  /\ accelerator = <<>>
  /\ node = <<>>
  /\ tree = <<>>
  /\ op = [name |-> "Vector3"]
  /\ exc = ""
  /\ ret = <<>>
  /\ brute = <<>>
  /\ box = EmptyAABB
  /\ cache = NoCache
  /\ held \in { << Own(d) >> : d \in ArgumentDirections }
  /\ updater = Idle
  /\ query = Idle

\* Ray(origin, d) with the vector d the caller holds: Vector3.normalize
\* divides the components of d itself and returns d, which the ray stores.
\* The division by a zero length raises before any component is written.
NewRay(origin) ==
  /\ LET d == held[1].val
         r == Ray(origin, d)
     IN /\ ret' = IF r.exc = "" THEN << r >> ELSE <<>>
        /\ exc' = r.exc
        /\ held' = IF r.exc = "" THEN << [held[1] EXCEPT !.val = r.direction] >> ELSE held
        /\ op' = [name |-> "Ray", origin |-> origin, direction |-> d]
  /\ UNCHANGED <<mesh, accelerator, node, tree, brute, box, cache, updater, query>>

NextRay == \E origin \in BoxRayOrigins : NewRay(origin)

SpecRay == InitRay /\ [][NextRay]_vars

\* ========================================================== properties
Range(l) == { l[i] : i \in 1..Len(l) }

\* The facets held by the leaves below n.
RECURSIVE LeafFacets(_)
LeafFacets(n) ==
  IF IsLeaf(n) THEN Range(n.facets)
  ELSE UNION { LeafFacets(n.children[i]) : i \in 1..Len(n.children) }

\* The number of levels below n.
RECURSIVE Height(_)
Height(n) ==
  IF IsLeaf(n) THEN 0
  ELSE LET hs == { Height(n.children[i]) : i \in 1..Len(n.children) }
       IN 1 + CHOOSE h \in hs : \A g \in hs : g <= h

\* Two query outcomes agree: neither raised, and both are a miss or both
\* are a hit at the same t.
SameOutcome(x, y) == x.exc = "" /\ y.exc = "" /\ x.t = y.t

\* node is the tree that branch(0) makes of the mesh.
BuiltByBranch0 ==
  /\ node # <<>>
  /\ LET b == Branch(KDTreeNode(mesh.aabb, mesh.facets, TRUE, TRUE), 0, <<>>)
     IN b.exc = "" /\ node[1] = b.node

\* C1: on the tree that branch(0) makes of a mesh, KDTreeNode.intersect and
\* the brute-force Ray.closest_intersection over the mesh's facets give the
\* same outcome for every ray: both miss, or both hit at the same t.
C1_TreeMatchesBruteForce ==
  (op.name = "intersect" /\ BuiltByBranch0) => SameOutcome(ret[1], brute[1])

\* C2: after branch(0) on a root, every facet of the root's input list is in
\* the facet list of at least one leaf of the tree.
C2_NoFacetDropped ==
  (op.name = "branch" /\ op.depth = 0) =>
    \A f \in Range(op.before.facets) : f \in LeafFacets(node[1])

\* C4: building the tree over any mesh of non-degenerate facets terminates
\* normally, also when the mesh's box has zero extent on an axis.
C4_BuildTerminatesNormally ==
  (op.name = "branch" /\ op.depth = 0) => exc = ""

\* Every node below and including n has 0 or 2 children, and no facets if
\* it has children.
RECURSIVE WellFormed(_)
WellFormed(n) ==
  /\ Len(n.children) \in {0, 2}
  /\ n.children # <<>> => n.facets = <<>>
  /\ \A i \in 1..Len(n.children) : WellFormed(n.children[i])

\* C5: after any sequence of branch calls on a node, every node of the tree
\* has exactly 0 or exactly 2 children and every node with children has an
\* empty facet list.
C5_ZeroOrTwoChildren == node # <<>> => WellFormed(node[1])

\* Every node below and including n that has children held facets when it
\* got the first of them.
RECURSIVE BranchedFromFacets(_)
BranchedFromFacets(n) ==
  /\ n.children # <<>> => n.branched_from # <<>>
  /\ \A i \in 1..Len(n.children) : BranchedFromFacets(n.children[i])

\* C6: no node lies deeper than DEPTH_BOUND levels below the root, and a
\* node whose facet list is empty never gets children.
C6_DepthBoundedNoEmptyBranch ==
  node # <<>> =>
    /\ Height(node[1]) <= DEPTH_BOUND
    /\ BranchedFromFacets(node[1])

\* Some leaf below or including n has no facets.
RECURSIVE HasEmptyLeaf(_)
HasEmptyLeaf(n) ==
  IF IsLeaf(n) THEN n.facets = <<>>
  ELSE \E i \in 1..Len(n.children) : HasEmptyLeaf(n.children[i])

\* C6 witness: a tree built by branch(0) that reaches the depth bound and
\* has a leaf without facets.
C6_FullDepthTree ==
  /\ op.name = "branch"
  /\ op.depth = 0
  /\ Height(node[1]) = DEPTH_BOUND
  /\ HasEmptyLeaf(node[1])

GeometricNormal(f) ==
  Cross(VSub(Vertices(f)[2], Vertices(f)[1]), VSub(Vertices(f)[3], Vertices(f)[1]))

\* The ray travels along the normal: it can only strike the triangle's back.
FromBehind(f, ray) == Dot(ray.direction, GeometricNormal(f)) > 0

\* The ray is parallel to the triangle's plane.
ParallelToPlane(f, ray) == Dot(ray.direction, GeometricNormal(f)) = 0

\* The ray meets the plane of f at some t >= 0, at a point of the closed
\* triangle.  With dn = d . n and num = (v0 - o) . n the point is
\* o + (num / dn) d; the three edge tests are made on dn times the point.
PassesThroughInFront(f, ray) ==
  LET n == GeometricNormal(f)
      dn == Dot(ray.direction, n)
      num == Dot(VSub(Vertices(f)[1], ray.origin), n)
      scaled(v) == [i \in Axes |-> dn * (ray.origin[i] - v[i]) + num * ray.direction[i]]
      side(k) == XSign(dn) * Dot(Cross(EdgeVector(f, k), scaled(Vertices(f)[k])), n)
  IN /\ dn # 0
     /\ num * dn >= 0
     /\ \A k \in 1..3 : side(k) >= 0

\* C11: with check_back_facing = False, Facet.intersect reports a miss for
\* every ray that can only strike the back of the triangle (det < 0); with
\* check_back_facing = True such a ray, when it passes through the triangle
\* in front of its origin, reports a hit; a ray parallel to the triangle's
\* plane (det = 0) is a miss in both modes.
C11_BackFaceCulling ==
  op.name = "Facet.intersect" =>
    /\ (FromBehind(op.facet, op.ray) /\ ~op.check_back_facing) =>
          (exc = "" /\ ~Hit(ret[1]))
    /\ (FromBehind(op.facet, op.ray) /\ op.check_back_facing
          /\ PassesThroughInFront(op.facet, op.ray)) =>
          (exc = "" /\ Hit(ret[1]) /\ ret[1].obj = op.facet)
    /\ ParallelToPlane(op.facet, op.ray) => (exc = "" /\ ~Hit(ret[1]))

\* C11 witness: a ray through the back of a triangle, in front of its
\* origin, probed with check_back_facing = True and reported as a hit.
C11_BackFaceHit ==
  /\ op.name = "Facet.intersect"
  /\ op.check_back_facing
  /\ FromBehind(op.facet, op.ray)
  /\ PassesThroughInFront(op.facet, op.ray)
  /\ Hit(ret[1])

\* C3: Mesh.append on a mesh with an accelerator installed completes; the
\* facet is then in mesh.facets, mesh.aabb covers it, and the accelerator is
\* a tree rebuilt for the updated facet list.
C3_AppendRebuildsAccelerator ==
  (op.name = "append" /\ op.accelerator # <<>>) =>
    /\ exc = ""
    /\ op.facet \in Range(mesh.facets)
    /\ \A i \in 1..3 : Contains(mesh.aabb, Vertices(op.facet)[i])
    /\ accelerator # <<>>
    /\ accelerator[1].aabb = mesh.aabb
    /\ Range(mesh.facets) \subseteq LeafFacets(accelerator[1])

\* C7: assigning KDTreeNode to Mesh.accelerator installs a tree bound to the
\* mesh's box and facets that has been built: a mesh with facets gets a
\* branched root, not a single unbranched leaf.
C7_AcceleratorIsBuilt ==
  (op.name = "accelerator" /\ op.type = "KDTreeNode") =>
    /\ accelerator # <<>>
    /\ accelerator[1].aabb = mesh.aabb
    /\ mesh.facets # <<>> => ~IsLeaf(accelerator[1])

\* C8: after KDTree.update(mesh) the root box is the mesh's aabb, every facet
\* of the mesh is in some leaf, and no other facet is reachable.
C8_UpdateRebuildsFromMesh ==
  op.name = "update" =>
    /\ tree[1].root.aabb = mesh.aabb
    /\ Range(mesh.facets) \subseteq LeafFacets(tree[1].root)
    /\ LeafFacets(tree[1].root) \subseteq Range(mesh.facets)

\* The coordinates on axis i of all vertices of the facets in l.
Coordinates(l, i) == { Vertices(l[k])[j][i] : k \in 1..Len(l), j \in 1..3 }

\* The bounding box of the facets in l, from the definition: the least and
\* greatest coordinate on each axis, the empty sentinel for no facets.
BoundingBox(l) ==
  IF l = <<>> THEN EmptyAABB
  ELSE [min |-> [i \in Axes |->
                  CHOOSE c \in Coordinates(l, i) : \A d \in Coordinates(l, i) : c <= d],
        max |-> [i \in Axes |->
                  CHOOSE c \in Coordinates(l, i) : \A d \in Coordinates(l, i) : d <= c]]

\* C9: after construction and any sequence of appends, mesh.aabb is exactly
\* the bounding box of the vertices of the facets in mesh.facets.
C9_AabbIsBoundingBox == mesh.aabb = BoundingBox(mesh.facets)

\* C9 witness: an append to a non-empty mesh that moved a corner of the box.
C9_AppendGrewBox ==
  /\ op.name = "append"
  /\ op.before.facets # <<>>
  /\ mesh.aabb # op.before.aabb

\* ------------------------------------------------------------ AABB claims
\* The parameters t the brute-force test tries: with coordinates and
\* directions on the integer grid the t that put a ray's point in a box
\* form an interval with integer ends.
BruteForceTs == 0..40

\* Some t in [min_t, max_t] puts origin + t * direction inside the closed
\* box b.
BruteForceHit(b, ray, min_t, max_t) ==
  \E t \in BruteForceTs :
    /\ min_t <= t
    /\ t <= max_t
    /\ Contains(b, [i \in Axes |-> ray.origin[i] + t * ray.direction[i]])

\* C12: AABB.intersect(ray, t_min, t_max) does not raise for a ray with
\* zero direction components and returns True exactly when some t in
\* [t_min, t_max] puts origin + t * direction inside the closed box, also
\* when the origin lies outside the slab of an axis with zero direction.
C12_IntersectIsBruteForce ==
  op.name = "AABB.intersect" =>
    /\ exc = ""
    /\ ret[1] <=> BruteForceHit(box, op.ray, op.min_t, op.max_t)

\* The running interval of AABB.intersect before each axis and after the
\* last one, and the axes the loop gets to.
SlabTrace(b, ray, min_t, max_t) ==
  LET s1 == SlabStep(b, ray, <<min_t, max_t>>, 1)
      s2 == SlabStep(b, ray, s1.iv, 2)
      s3 == SlabStep(b, ray, s2.iv, 3)
  IN [iv |-> << <<min_t, max_t>>, s1.iv, s2.iv, s3.iv >>,
      done |-> << TRUE, ~s1.miss, ~s1.miss /\ ~s2.miss >>]

\* Axis i of the query in op has zero direction and is processed without
\* the running interval changing.
ZeroAxisKeepsInterval(i) ==
  LET tr == SlabTrace(box, op.ray, op.min_t, op.max_t)
  IN (op.ray.direction[i] = 0 /\ tr.done[i]) => tr.iv[i + 1] = tr.iv[i]

\* The origin of the query in op lies within the box's slab on axis i.
OriginInSlab(i) == box.min[i] <= op.ray.origin[i] /\ op.ray.origin[i] <= box.max[i]

\* C13 as claimed: an axis on which the direction is zero never narrows the
\* running [t_min, t_max] interval, for every box and ray origin.
C13_ZeroAxisNeverNarrows ==
  op.name = "AABB.intersect" => \A i \in Axes : ZeroAxisKeepsInterval(i)

\* C13 amended: an axis on which the direction is zero does not narrow the
\* running interval when the ray origin lies within the box's closed slab
\* on that axis.
C13_ZeroAxisInSlabKeepsInterval ==
  op.name = "AABB.intersect" =>
    \A i \in Axes : OriginInSlab(i) => ZeroAxisKeepsInterval(i)

\* C13 witness: a query whose last axis has zero direction and the origin
\* in its slab, reached with the interval already narrowed by an earlier
\* axis.
C13_InSlabAxisProcessed ==
  /\ op.name = "AABB.intersect"
  /\ op.ray.direction[3] = 0
  /\ OriginInSlab(3)
  /\ LET tr == SlabTrace(box, op.ray, op.min_t, op.max_t)
     IN tr.done[3] /\ tr.iv[3] # tr.iv[1]

\* An extent, a product and a sum where a term may be infinite.
XExtent(b, i) ==
  IF b.max[i] = inf \/ b.min[i] = 0 - inf THEN inf ELSE b.max[i] - b.min[i]

XAdd(a, b) == IF a = NaN \/ b = NaN THEN NaN ELSE IF a = inf \/ b = inf THEN inf ELSE a + b

Volume(b) == XMul(XMul(XExtent(b, 1), XExtent(b, 2)), XExtent(b, 3))

\* The smallest box around two boxes.
BoxUnion(a, b) ==
  [min |-> [i \in Axes |-> Min2(a.min[i], b.min[i])],
   max |-> [i \in Axes |-> Max2(a.max[i], b.max[i])]]

\* C14: for a value strictly between the box's min and max on the axis,
\* split returns (left, right) with left.min = box.min, right.max = box.max,
\* left.max and right.min equal to box.max and box.min but for value on the
\* axis; the union of the two is the box, their volumes sum to its volume,
\* and the receiver is unchanged.
C14_SplitPartitionsBox ==
  (op.name = "split" /\ op.before.min[op.axis] < op.value
                     /\ op.value < op.before.max[op.axis]) =>
    /\ exc = ""
    /\ ret # <<>>
    /\ ret[1].left.min = op.before.min
    /\ ret[1].right.max = op.before.max
    /\ ret[1].left.max = [op.before.max EXCEPT ![op.axis] = op.value]
    /\ ret[1].right.min = [op.before.min EXCEPT ![op.axis] = op.value]
    /\ BoxUnion(ret[1].left, ret[1].right) = op.before
    /\ Volume(ret[1].left) # NaN
    /\ XAdd(Volume(ret[1].left), Volume(ret[1].right)) = Volume(op.before)
    /\ box = op.before

\* C14 witness: a box with volume split in two boxes with volume.
C14_SplitInTwo ==
  /\ op.name = "split"
  /\ ret # <<>>
  /\ Volume(ret[1].left) > 0
  /\ Volume(ret[1].left) < Volume(op.before)
  /\ Volume(op.before) < inf

\* C15: split raises ValueError exactly when value <= min[axis] or
\* value >= max[axis], a value equal to a bound included, and returns two
\* boxes in every other case.
C15_SplitRaisesOutsideOrOnBounds ==
  op.name = "split" =>
    IF op.value <= op.before.min[op.axis] \/ op.value >= op.before.max[op.axis]
    THEN exc = "ValueError" /\ ret = <<>>
    ELSE exc = "" /\ ret # <<>>

\* C15 witness: a split of a box with extent on the axis, at its min or max
\* on that axis, raised.
C15_SplitOnBoundRaised ==
  /\ op.name = "split"
  /\ op.before.min[op.axis] < op.before.max[op.axis]
  /\ op.value \in {op.before.min[op.axis], op.before.max[op.axis]}
  /\ exc = "ValueError"

\* The points an input of expand stands for: a Vector3 is a point, an AABB
\* its two corners, a list the points of its elements.
RECURSIVE PointsOf(_)
PointsOf(x) ==
  IF x.kind = "Vector3" THEN {x.val}
  ELSE IF x.kind = "AABB" THEN {x.val.min, x.val.max}
  ELSE IF x.kind = "list" THEN UNION { PointsOf(x.val[k]) : k \in 1..Len(x.val) }
  ELSE {}

\* Box b contains every point of x.
ContainsInput(b, x) == \A p \in PointsOf(x) : Contains(b, p)

\* C16: expand(x) leaves the box containing every point of x and all it
\* contained before, and an expand by an input the box already contains (a
\* point, a box, a nested list of them) leaves min and max unchanged; so
\* does the same expand made again.
C16_ExpandCoversAndIsIdempotent ==
  op.name = "expand" =>
    /\ exc = "" => ContainsInput(box, op.objects)
    /\ \A i \in Axes : box.min[i] <= op.before.min[i] /\ op.before.max[i] <= box.max[i]
    /\ ContainsInput(op.before, op.objects) => box = op.before
    /\ Expand(box, op.objects).box = box

\* C16 witness: a non-empty nested list of points and boxes the box already
\* contained, expanded by with nothing changing.
C16_ContainedListExpanded ==
  /\ op.name = "expand"
  /\ exc = ""
  /\ op.objects.kind = "list"
  /\ \E k \in 1..Len(op.objects.val) : op.objects.val[k].kind = "list"
  /\ ContainsInput(op.before, op.objects)
  /\ op.before.min[1] < op.before.max[1]
  /\ op.before.max[1] < inf
  /\ box = op.before

\* ------------------------------------------- Intersection and Ray claims
\* t of a is strictly less than t of b, for two hits.
TLess(a, b) == a[1] * b[2] < b[1] * a[2]

\* C17: closer_than is a strict order with the miss farthest: a miss is
\* never closer than anything, another miss included; a hit is closer than
\* a miss; of two hits the one with strictly smaller t is closer; with equal
\* t neither is closer; the relation is irreflexive, asymmetric and
\* transitive.
C17_CloserThanIsStrictOrder ==
  op.name = "closer_than" =>
    /\ ~Hit(op.x) => ~ret[1].xy
    /\ (Hit(op.x) /\ ~Hit(op.y)) => ret[1].xy
    /\ (Hit(op.x) /\ Hit(op.y)) => (ret[1].xy <=> TLess(op.x.t, op.y.t))
    /\ op.x.t = op.y.t => (~ret[1].xy /\ ~ret[1].yx)
    /\ ~ret[1].xx
    /\ ~(ret[1].xy /\ ret[1].yx)
    /\ (ret[1].xy /\ ret[1].yz) => ret[1].xz

\* C17 witness: two hits at different t and a miss, compared in order.
C17_HitsAndMissCompared ==
  /\ op.name = "closer_than"
  /\ Hit(op.x) /\ Hit(op.y) /\ ~Hit(op.z)
  /\ TLess(op.x.t, op.y.t)
  /\ ret[1].xy /\ ret[1].yz /\ ret[1].xz /\ ~ret[1].yx

\* C18: constructing an Intersection raises ValueError exactly when t is
\* not None and t < 0, so every Intersection that exists has t absent or
\* t >= 0; and an assignment to its t or obj raises and changes nothing.
C18_IntersectionNeverNegative ==
  /\ op.name = "Intersection" =>
        /\ exc = "ValueError" <=> (op.t # <<>> /\ op.t[1] < 0)
        /\ exc # "ValueError" => (exc = "" /\ ret = << [exc |-> "", t |-> op.t, obj |-> op.obj] >>)
        /\ exc = "ValueError" => ret = <<>>
  /\ (op.name \in {"Intersection", "setattr", "closest_intersection"} /\ ret # <<>>) =>
        (ret[1].t = <<>> \/ ret[1].t[1] >= 0)
  /\ op.name = "setattr" => (exc = "AttributeError" /\ ret = op.before)

\* C18 witness: an assignment to a field of a hit, refused.
C18_AssignmentRefused ==
  /\ op.name = "setattr"
  /\ Hit(ret[1])
  /\ op.value # ret[1].t
  /\ exc = "AttributeError"

\* What item k of the scanned collection returns from intersect(ray), and
\* the items that return a hit.
ItemResult(k) == FacetIntersect(op.collection[k], op.ray, FALSE)

HitsReturned ==
  { k \in 1..Len(op.collection) :
      op.collection[k] # 0 /\ ItemResult(k).exc = "" /\ Hit(ItemResult(k)) }

\* C19: closest_intersection passes over every item with no callable
\* intersect and returns a miss when no intersectable item is hit,
\* otherwise a hit whose t is the least t of the hits the items return.
C19_ScanReturnsClosestHit ==
  op.name = "closest_intersection" =>
    /\ exc = ""
    /\ ret # <<>>
    /\ IF HitsReturned = {} THEN ~Hit(ret[1])
       ELSE /\ Hit(ret[1])
            /\ \E k \in HitsReturned : ret[1].t = ItemResult(k).t
            /\ \A k \in HitsReturned : ~TLess(ItemResult(k).t, ret[1].t)

\* ------------------------------------------------------------ query claims
\* The operation recorded in o is a query on a node or on a tree.
IsQuery(o) == o.name \in {"intersect", "KDTree.intersect"}

RootBefore ==
  IF updater.pc \in {"branch", "done"} THEN updater.before.root ELSE tree[1].root

\* The states the new root passes through during the update that was called.
RootStates == << FreshRoot >> \o updater.plan.states

\* The root as the finished update leaves it.
RootAfter == RootStates[Len(RootStates)]

\* C21: a query is safe beside an update only when their steps do not
\* interleave.  A query that read the root before the update rebound it
\* returns the result on the tree before; a query that ran alone after the
\* update returns the result on the tree after.  Mid-update the new root
\* has only the first of its two children attached and still holds its
\* facets, and a query that reads the new root meanwhile returns the result
\* on one of the states the root passes through (or the TypeError of
\* scanning facets that became None): the witness is such a query whose
\* result equals neither the result before nor the result after.
C21_QueryBesideUpdate ==
  /\ (updater.pc = "branch" /\ updater.written = 1) =>
       /\ Len(tree[1].root.children) = 1
       /\ tree[1].root.facets = mesh.facets
  /\ (updater.pc = "done" /\ query.pc = "idle") =>
       LET k == KDTreeInit(mesh)
       IN tree[1] = k.tree /\ updater.exc = k.exc
  /\ query.pc = "done" =>
       /\ query.ref = "old" => query.result = NodeIntersect(RootBefore, query.ray)
       /\ (query.ref = "new" /\ query.alone) =>
            query.result = NodeIntersect(RootAfter, query.ray)
       /\ (query.ref = "new" /\ ~query.alone) =>
            \/ \E k \in 1..Len(RootStates) :
                 query.result = NodeIntersect(RootStates[k], query.ray)
            \/ query.result = [Miss EXCEPT !.exc = "TypeError"]

\* C21 witness: the update finished normally, and a query that found the
\* new root with one child attached, and no second one when it looked again,
\* returned a result that is neither the one before nor the one after.
C21_TornQuery ==
  /\ query.pc = "done"
  /\ updater.pc = "done"
  /\ updater.exc = ""
  /\ query.ref = "new"
  /\ query.seen = 1
  /\ query.result # NodeIntersect(RootBefore, query.ray)
  /\ query.result # NodeIntersect(RootAfter, query.ray)

\* ------------------------------------------------- node life-cycle claims
\* C22: a node goes from leaf to interior and never back: branch(depth)
\* gives a leaf children only when its facet list is non-empty and
\* depth < DEPTH_BOUND, and then exactly two; otherwise the node stays a
\* leaf with its facet list as it was; and neither branch nor intersect
\* changes the children of a node that has some.
C22_LeafToInterior ==
  [][(node # <<>> /\ op'.name \in {"branch", "intersect"}) =>
       LET b == node[1]
           n == node'[1]
       IN /\ op'.name = "intersect" => n = b
          /\ (op'.name = "branch" /\ IsLeaf(b) /\ ~IsLeaf(n)) =>
               /\ CanBranch(b, op'.depth)
               /\ Len(n.children) = 2
          /\ (op'.name = "branch" /\ IsLeaf(b) /\ ~CanBranch(b, op'.depth)) =>
               /\ IsLeaf(n)
               /\ n.facets = b.facets
          /\ ~IsLeaf(b) => n.children = b.children]_vars

\* The least and the greatest coordinate of facet f's vertices on an axis.
FacetLow(f, axis) ==
  LET cs == { Vertices(f)[k][axis] : k \in 1..Len(Vertices(f)) }
  IN CHOOSE m \in cs : \A c \in cs : m <= c

FacetHigh(f, axis) ==
  LET cs == { Vertices(f)[k][axis] : k \in 1..Len(Vertices(f)) }
  IN CHOOSE m \in cs : \A c \in cs : m >= c

\* C23: split_facets(axis, value) returns as left list the facets whose
\* bounding box minimum on the axis is strictly less than value and as right
\* list those whose maximum is strictly greater, each in the order of the
\* node's list; a facet that straddles value is in both.
C23_SplitFacetsBySide ==
  op.name = "split_facets" =>
    LET facets == node[1].facets
        a == op.plane_axis
        v == op.plane_value
        InLeft(f) == FacetLow(f, a) < v
        InRight(f) == FacetHigh(f, a) > v
    IN /\ ret[1].left = SelectSeq(facets, InLeft)
       /\ ret[1].right = SelectSeq(facets, InRight)
       /\ \A f \in Range(facets) :
            (FacetLow(f, a) < v /\ v < FacetHigh(f, a)) =>
              f \in Range(ret[1].left) /\ f \in Range(ret[1].right)

\* C23 witness: of two different facets one straddles the plane and is in
\* both lists, the other is on the plane's right only.
C23_StraddlerInBoth ==
  /\ op.name = "split_facets"
  /\ Len(node[1].facets) = 2
  /\ Len(ret[1].left) = 1
  /\ Len(ret[1].right) = 2
  /\ ret[1].left[1] = node[1].facets[2]
  /\ node[1].facets[1] # node[1].facets[2]

\* ------------------------------------------------------ AABB view claims
\* Every bound of b is a finite number.
Finite(b) == \A i \in Axes : ~IsInf(b.min[i]) /\ ~IsInf(b.max[i])

\* min + (max - min) / 2 component by component, the origin for the empty box.
CenterOf(b) ==
  IF b = EmptyAABB THEN <<0, 0, 0>>
  ELSE [i \in Axes |->
          LET extent == FSub(b.max[i], b.min[i])
              half == IF extent = NaN \/ IsInf(extent) THEN extent ELSE extent \div 2
          IN FAdd(b.min[i], half)]

\* The eight corners of min/max: every choice of min or max on each axis.
EightCorners(b) ==
  { << x, y, z >> : x \in {b.min[1], b.max[1]}, y \in {b.min[2], b.max[2]},
                    z \in {b.min[3], b.max[3]} }

\* The components of the vectors in a list of held vectors.
Values(vs) == [k \in DOMAIN vs |-> vs[k].val]

\* C24 (as stated): whatever center and corners hold cached, and so return,
\* is coherent with the current bounds of every box: center is
\* min + (max - min) / 2 (the origin for the empty box) and corners are the
\* eight corners of the current min/max.
C24_CachedViewsCoherent ==
  /\ cache.center # <<>> => cache.center[1] = CenterOf(box)
  /\ cache.corners # <<>> =>
       /\ Len(cache.corners[1]) = 8
       /\ Range(Values(cache.corners[1])) = EightCorners(box)

\* C24 (amended): whatever center and corners hold cached is what the
\* properties compute from the current bounds, never from bounds an expand
\* has replaced; for a box with finite bounds that is min + (max - min) / 2
\* and the eight corners of min/max, and for the empty box the center is
\* the origin.
C24_CachedViewsCurrent ==
  /\ cache.center # <<>> =>
       /\ cache.center[1] = Center(box)
       /\ (Finite(box) \/ box = EmptyAABB) => cache.center[1] = CenterOf(box)
  /\ cache.corners # <<>> =>
       /\ Values(cache.corners[1]) = Values(Corners(box))
       /\ Finite(box) =>
            /\ Len(cache.corners[1]) = 8
            /\ Range(Values(cache.corners[1])) = EightCorners(box)

\* C24 witness: center is read on a finite box whose corners were read and
\* kept before an expand that moved the bounds (the kept corners are not
\* the current ones, and the cached corners are gone).
C24_ReadAfterExpand ==
  /\ op.name = "center"
  /\ Finite(box)
  /\ Len(held) = 8
  /\ Range(Values(held)) # EightCorners(box)
  /\ cache.corners = <<>>
  /\ cache.center # <<>>

\* C25: expanding a box by an empty AABB changes nothing: b.expand(AABB())
\* leaves b.min and b.max as they were, for the empty b too.
C25_ExpandByEmptyIsNoOp ==
  (op.name = "expand" /\ op.objects.kind = "AABB" /\ op.objects.val = EmptyAABB) =>
    /\ exc = ""
    /\ box = op.before

\* C26: the empty AABB is hit by no ray: AABB().intersect(ray) with the
\* default bounds is False for every ray, as AABB().contains(p) is False for
\* every point (here the origin of the ray).
C26_EmptyBoxIsNeverHit ==
  (op.name = "AABB.intersect" /\ box = EmptyAABB /\ op.min_t = 0 /\ op.max_t = inf) =>
    /\ ~Contains(box, op.ray.origin)
    /\ ret[1] = FALSE

\* C27: an expand that raises TypeError leaves min and max as they were
\* before the call, whatever preceded the unsupported element.
C27_FailedExpandLeavesBox ==
  (op.name = "expand" /\ exc = "TypeError") => box = op.before

\* C28: the vectors a caller got from box.corners or box.size and kept are
\* not changed by a later box.expand: every one of them has the same
\* components after the call as before it.
C28_HeldVectorsUnchanged ==
  [][op'.name = "expand" => Values(held') = Values(held)]_vars

\* --------------------------------------------------------- Ray claims
\* C29: Ray(origin, d) stores a direction of unit length and leaves the
\* caller's d with the components it had; a zero-length d makes the
\* construction fail with ValueError.
C29_RayLeavesArgument ==
  op.name = "Ray" =>
    /\ held[1].val = op.direction
    /\ IF op.direction = <<0, 0, 0>> THEN exc = "ValueError"
       ELSE /\ exc = ""
            /\ Dot(ret[1].direction, ret[1].direction) = 1
            /\ ret[1].origin = op.origin

\* ------------------------------------------------------- build claims
\* C30: branch on a root made from (mesh.aabb, mesh.facets) leaves the mesh
\* as it was: mesh.facets holds the same facets in the same order and
\* mesh.aabb the same min and max, while the root's own facet list is empty
\* once the call has given it its children.
C30_BranchLeavesMesh ==
  [][op'.name = "branch" =>
       /\ mesh'.facets = mesh.facets
       /\ mesh'.aabb = mesh.aabb
       /\ (exc' = "" /\ CanBranch(node[1], op'.depth)) => node'[1].facets = <<>>]_vars

\* C30 witness: a root that shares the mesh's box and list was branched into
\* two children and holds no facets, and the mesh still holds its facets.
C30_RootBranchedMeshKept ==
  /\ op.name = "branch"
  /\ op.before.box_shared
  /\ op.before.list_shared
  /\ exc = ""
  /\ Len(node[1].children) = 2
  /\ node[1].facets = <<>>
  /\ Len(mesh.facets) > 0

====
